---- MODULE Spec2Model ----
(***************************************************************************)
(* A model of rom-cache: Cache<G, L>, a set-associative cache of           *)
(* Cacheable values keyed by type, with per-line Flag bytes, LRU ranks,    *)
(* dirty write-back, and the guards CacheRef / CacheMut.                   *)
(*                                                                         *)
(* Threads are not named: every call is made by some thread that is not    *)
(* inside another call, and a guard may be dropped or mutably dereferenced *)
(* by whichever thread holds it.  The group mutex is modelled by `lock`    *)
(* and the call that holds it by `call`.                                   *)
(***************************************************************************)
EXTENDS Integers, Sequences, FiniteSets, TLC

\* ---------------------------------------------------------------- bounds
MaxHandles == 2      \* guards alive at once (Spec)
MaxLru == 3          \* cap on the u8 lru counter, which grows without limit
                     \* only through failed loads into an empty line

\* the Cacheable types the program uses, and the values one can hold
Types == 1..4
MainTypes == 1..3
Values == 0..1
\* AtomicU8: the width of Flag::inner
U8 == 256
\* the instantiations Cache<G, L> that are explored
Geometries == {<<1, 1>>, <<1, 2>>, <<2, 1>>}

\* Option::None of CacheLine::inner
None == -1

VARIABLES
    G,        \* const generic G of Cache<G, L>
    L,        \* const generic L of Cache<G, L>
    lines,    \* lines[g][i] = [lru, type_id, inner]
    flags,    \* flags[g][i] = the AtomicU8 of Flag
    lock,     \* lock[g] : "free" | "held" | "poisoned"
    call,     \* call[g] : the retrieve / retrieve_mut holding lock[g], or NoCall
    storage,  \* storage[T] : what T::load() reads and T::store() writes
    refs,     \* refs[g][i] : live CacheRef guards on the line
    muts,     \* muts[g][i] : live CacheMut guards on the line
    last,     \* outcome of the last completed call, with its Cacheable calls
    alive,    \* the Cache (its Arc<CacheInner>) has not been dropped
    mutated,  \* history: mutated[g][i] iff the line's value was mutably
              \* dereferenced since its load and not written back since
    recency,  \* history (SpecLru): recency[g] = the types of group g that a
              \* reference LRU list of capacity L holds, most recent first
    allOk     \* history (SpecLru): every call so far returned a guard

hist == <<recency, allOk>>
vars == <<G, L, lines, flags, lock, call, storage, refs, muts, last, alive,
          mutated, hist>>

\* ------------------------------------------------------------------ Flag
\* bit 0: write, bits 1..6: read count, bit 7: dirty
is_dirty(f) == f \div 128 = 1
set_dirty(f) == IF f \div 128 = 1 THEN f ELSE f + 128
set_clean(f) == f % 128
in_using(f) == f % 128 # 0
end_write(f) == f - (f % 2)
end_read(f) == (f + U8 - 2) % U8
\* Flag::read: refused iff the write bit is set; fetch_add wraps in 8 bits
read_admits(f) == f % 2 # 1
read_add(f) == (f + 2) % U8
\* Flag::write: compare_exchange_weak(0, 1) on the whole byte; a weak
\* exchange may also fail spuriously
write_admits(f, spurious) == f = 0 /\ ~spurious

\* ------------------------------------------------------------- Cacheable
\* A type is named by the word type_id_usize() gives it: the low 64 bits of
\* its TypeId, distinct for distinct types and never 0 for the types used.
type_id_usize(T) == T
\* the concrete type behind a stored Box<dyn Cacheable>, by the line's tag
TypeOf(tid) == tid
\* T::default(); load() returns storage[T], store(v) sets it (tests/loom_test.rs)
Default(T) == 0
LoadEv(T, ok) == [f |-> "load", T |-> T, v |-> None, ok |-> ok]
StoreEv(T, v, ok) == [f |-> "store", T |-> T, v |-> v, ok |-> ok]

\* ------------------------------------------------------------- CacheSlot
Hit(i) == [kind |-> "Hit", i |-> i]
Empty(i) == [kind |-> "Empty", i |-> i]
Evict(i) == [kind |-> "Evict", i |-> i]
NoSlot == [kind |-> "None", i |-> 0]

RECURSIVE slotScan(_, _, _, _, _)
slotScan(ls, n, tid, i, s) ==
    IF i = n THEN s
    ELSE IF ls[i].type_id = tid THEN Hit(i)
    ELSE IF ls[i].type_id = 0 THEN Empty(i)
    ELSE IF ls[i].lru = n - 1 THEN slotScan(ls, n, tid, i + 1, Evict(i))
    ELSE slotScan(ls, n, tid, i + 1, s)

\* mutant of slot: the empty line chosen is the one of highest index
slot_lastempty(ls, n, T) ==
    IF \E i \in 0..(n - 1) : ls[i].type_id = type_id_usize(T)
    THEN Hit(CHOOSE i \in 0..(n - 1) : ls[i].type_id = type_id_usize(T))
    ELSE IF \E i \in 0..(n - 1) : ls[i].type_id = 0
    THEN Empty(CHOOSE i \in 0..(n - 1) :
                  /\ ls[i].type_id = 0
                  /\ \A j \in 0..(n - 1) : ls[j].type_id = 0 => j <= i)
    ELSE slotScan(ls, n, type_id_usize(T), 0, NoSlot)

\* mutant of slot: an empty line is preferred to a line that holds the tag
slot_emptyfirst(ls, n, T) ==
    IF \E i \in 0..(n - 1) : ls[i].type_id = 0
    THEN Empty(CHOOSE i \in 0..(n - 1) :
                  /\ ls[i].type_id = 0
                  /\ \A j \in 0..(n - 1) : ls[j].type_id = 0 => i <= j)
    ELSE slotScan(ls, n, type_id_usize(T), 0, NoSlot)

\* CacheGroup::slot over the lines ls of one group (n = L)
slot(ls, n, T) == slotScan(ls, n, type_id_usize(T), 0, NoSlot)

\* mutant of hitLru: the hit line becomes 0 and no other line ages
hitLru_noage(ls, i) ==
    [k \in DOMAIN ls |-> IF k = i THEN [ls[k] EXCEPT !.lru = 0] ELSE ls[k]]

\* Hit: lines more recent than line i age by one, line i becomes 0
hitLru(ls, i) ==
    [k \in DOMAIN ls |->
        IF k = i THEN [ls[k] EXCEPT !.lru = 0]
        ELSE IF ls[k].lru < ls[i].lru THEN [ls[k] EXCEPT !.lru = @ + 1]
        ELSE ls[k]]

\* Empty / Evict: every line ages by one, line i becomes 0
missLru(ls, i) ==
    [k \in DOMAIN ls |->
        IF k = i THEN [ls[k] EXCEPT !.lru = 0] ELSE [ls[k] EXCEPT !.lru = @ + 1]]

\* mutant of install: a failed load() is swallowed and T::default() installed
install_default(ls, fs, st, io, i, T, loadOk) ==
    [res |-> "Ok", i |-> i, flags |-> fs, storage |-> st,
     lines |-> [ls EXCEPT ![i] = [@ EXCEPT !.inner = IF loadOk THEN st[T] ELSE 0,
                                           !.type_id = T]],
     io |-> Append(io, [f |-> "load", T |-> T, v |-> -1, ok |-> loadOk]),
     handle |-> FALSE]

\* lines[i].inner = Some(Box::new(T::load()?)); lines[i].type_id = ...
install(ls, fs, st, io, i, T, loadOk) ==
    IF loadOk
    THEN [res |-> "Ok", i |-> i, flags |-> fs, storage |-> st,
          lines |-> [ls EXCEPT ![i] = [@ EXCEPT !.inner = st[T],
                                                !.type_id = type_id_usize(T)]],
          io |-> Append(io, LoadEv(T, TRUE)), handle |-> FALSE]
    ELSE [res |-> "Io", i |-> i, flags |-> fs, storage |-> st, lines |-> ls,
          io |-> Append(io, LoadEv(T, FALSE)), handle |-> FALSE]

\* the Evict arm of CacheGroup::load, after the LRU update
evict(ls, fs, st, i, T, loadOk, storeOk) ==
    IF in_using(fs[i])
    THEN [res |-> "Busy", i |-> i, flags |-> fs, storage |-> st, lines |-> ls,
          io |-> <<>>, handle |-> FALSE]
    ELSE IF is_dirty(fs[i])
    THEN IF ls[i].inner = None
         THEN \* inner.take().unwrap() on None
              [res |-> "panic", i |-> i, flags |-> fs, storage |-> st,
               lines |-> ls, io |-> <<>>, handle |-> FALSE]
         ELSE LET old == TypeOf(ls[i].type_id)
                  v == ls[i].inner
                  taken == [ls EXCEPT ![i] = [@ EXCEPT !.inner = None]]
              IN IF storeOk
                 THEN install(taken, [fs EXCEPT ![i] = set_clean(@)],
                              [st EXCEPT ![old] = v],
                              <<StoreEv(old, v, TRUE)>>, i, T, loadOk)
                 ELSE [res |-> "Io", i |-> i, flags |-> fs, storage |-> st,
                       lines |-> taken, io |-> <<StoreEv(old, v, FALSE)>>,
                       handle |-> FALSE]
    ELSE install(ls, fs, st, <<>>, i, T, loadOk)

\* CacheGroup::load on one group: lines ls, flags fs, backing store st
load(ls, fs, st, n, T, loadOk, storeOk) ==
    LET s == slot(ls, n, T) IN
    CASE s.kind = "Hit" ->
            [res |-> "Ok", i |-> s.i, flags |-> fs, storage |-> st,
             lines |-> hitLru(ls, s.i), io |-> <<>>, handle |-> FALSE]
      [] s.kind = "Empty" ->
            install(missLru(ls, s.i), fs, st, <<>>, s.i, T, loadOk)
      [] s.kind = "Evict" ->
            evict(missLru(ls, s.i), fs, st, s.i, T, loadOk, storeOk)
      [] OTHER -> \* unreachable!()
            [res |-> "panic", i |-> 0, flags |-> fs, storage |-> st,
             lines |-> ls, io |-> <<>>, handle |-> FALSE]

\* ------------------------------------------------------------ the state
Groups == 0..(G - 1)
Idx == 0..(L - 1)
NoCall == [T |-> 0, mut |-> FALSE]
NoEvent == [op |-> "none", T |-> 0, res |-> "none", g |-> 0, i |-> 0,
            val |-> None, io |-> <<>>]
LiveHandles ==
    LET RECURSIVE sum(_)
        sum(k) == IF k = G * L THEN 0
                  ELSE refs[k \div L][k % L] + muts[k \div L][k % L] + sum(k + 1)
    IN sum(0)
InFlight == Cardinality({g \in Groups : call[g] # NoCall})
\* mutant of group_of: every type is sent to group 0
group_of_zero(T) == 0
group_of(T) == type_id_usize(T) % G

\* Cache::default(): CacheLine::default() and Flag::default() everywhere
InitOf(geos) ==
    /\ \E geo \in geos : G = geo[1] /\ L = geo[2]
    /\ lines = [g \in Groups |-> [i \in Idx |->
                    [lru |-> 0, type_id |-> 0, inner |-> None]]]
    /\ flags = [g \in Groups |-> [i \in Idx |-> 0]]
    /\ lock = [g \in Groups |-> "free"]
    /\ call = [g \in Groups |-> NoCall]
    /\ storage = [T \in Types |-> Default(T)]
    /\ refs = [g \in Groups |-> [i \in Idx |-> 0]]
    /\ muts = [g \in Groups |-> [i \in Idx |-> 0]]
    /\ last = NoEvent
    /\ alive = TRUE
    /\ mutated = [g \in Groups |-> [i \in Idx |-> FALSE]]
    /\ recency = [g \in Groups |-> <<>>]
    /\ allOk = TRUE

Init == InitOf(Geometries)

\* ------------------------------------------------- retrieve / retrieve_mut
\* self.lock.lock(): the caller takes the group mutex (it waits while held)
Lock(T, m, cap) ==
    LET g == group_of(T) IN
    /\ alive
    /\ lock[g] = "free"
    /\ LiveHandles + InFlight < cap
    /\ lock' = [lock EXCEPT ![g] = "held"]
    /\ call' = [call EXCEPT ![g] = [T |-> T, mut |-> m]]
    /\ last' = NoEvent
    /\ UNCHANGED <<G, L, lines, flags, storage, refs, muts, alive, mutated, hist>>

\* self.lock.lock().map_err(|_| CacheError::Poisoned)?
LockPoisoned(T, m) ==
    LET g == group_of(T) IN
    /\ alive
    /\ lock[g] = "poisoned"
    /\ last' = [NoEvent EXCEPT !.op = IF m THEN "get_mut" ELSE "get",
                               !.T = T, !.g = g, !.res = "Poisoned"]
    /\ UNCHANGED <<G, L, lines, flags, lock, call, storage, refs, muts, alive,
                   mutated, hist>>

\* The rest of retrieve (m = FALSE) / retrieve_mut (m = TRUE) once load
\* returned r: Flag::read / Flag::write on line r.i, then unwrap of inner.
admit(r, m, spurious) ==
    LET f == r.flags[r.i]
        f2 == IF m THEN 1 ELSE read_add(f)
        taken == [r.flags EXCEPT ![r.i] = f2]
    IN IF r.res # "Ok" THEN [r EXCEPT !.handle = FALSE]
       ELSE IF ~(IF m THEN write_admits(f, spurious) ELSE read_admits(f))
       THEN [r EXCEPT !.res = "Locked", !.handle = FALSE]
       ELSE IF r.lines[r.i].inner = None
       THEN \* lines[i].inner.as_deref().unwrap() on None, after the flag
            \* was taken: no guard exists to release it
            [r EXCEPT !.res = "panic", !.handle = FALSE, !.flags = taken]
       ELSE [r EXCEPT !.handle = TRUE, !.flags = taken]

\* The body of retrieve / retrieve_mut under the mutex.
\* Result: [res, i, lines, flags, storage, io, handle]
retrieve(ls, fs, st, n, T, m, loadOk, storeOk, spurious) ==
    admit(load(ls, fs, st, n, T, loadOk, storeOk), m, spurious)

\* the Cacheable calls io include a store() or a load() that succeeded
WroteBack(io) == \E k \in 1..Len(io) : io[k].ok

LruCapped(ls) == \A i \in DOMAIN ls : ls[i].lru <= MaxLru

RetrieveCall(g, loadOk, storeOk, spurious) ==
    /\ call[g] # NoCall
    /\ \E r \in {retrieve(lines[g], flags[g], storage, L, call[g].T, call[g].mut,
                          loadOk, storeOk, spurious)} :
          /\ LruCapped(r.lines)
          /\ lines' = [lines EXCEPT ![g] = r.lines]
          /\ flags' = [flags EXCEPT ![g] = r.flags]
          /\ storage' = r.storage
          /\ refs' = IF r.handle /\ ~call[g].mut
                     THEN [refs EXCEPT ![g][r.i] = @ + 1] ELSE refs
          /\ muts' = IF r.handle /\ call[g].mut
                     THEN [muts EXCEPT ![g][r.i] = @ + 1] ELSE muts
          /\ lock' = [lock EXCEPT ![g] = IF r.res = "panic" THEN "poisoned" ELSE "free"]
          /\ last' = [op |-> IF call[g].mut THEN "get_mut" ELSE "get",
                      T |-> call[g].T, res |-> r.res, g |-> g, i |-> r.i,
                      io |-> r.io,
                      val |-> IF r.handle THEN r.lines[r.i].inner ELSE None]
          /\ mutated' = IF WroteBack(r.io) THEN [mutated EXCEPT ![g][r.i] = FALSE]
                         ELSE mutated
    /\ call' = [call EXCEPT ![g] = NoCall]
    /\ UNCHANGED <<G, L, alive>>

Retrieve(g, loadOk, storeOk, spurious) ==
    /\ RetrieveCall(g, loadOk, storeOk, spurious)
    /\ UNCHANGED hist

\* ------------------------------------------------------------- the guards
\* impl Drop for CacheRef: flag.end_read()
DropRef(g, i) ==
    /\ refs[g][i] > 0
    /\ refs' = [refs EXCEPT ![g][i] = @ - 1]
    /\ flags' = [flags EXCEPT ![g][i] = end_read(@)]
    /\ last' = NoEvent
    /\ UNCHANGED <<G, L, lines, lock, call, storage, muts, alive, mutated, hist>>

\* impl Drop for CacheMut: flag.end_write()
DropMut(g, i) ==
    /\ muts[g][i] > 0
    /\ muts' = [muts EXCEPT ![g][i] = @ - 1]
    /\ flags' = [flags EXCEPT ![g][i] = end_write(@)]
    /\ last' = NoEvent
    /\ UNCHANGED <<G, L, lines, lock, call, storage, refs, alive, mutated, hist>>

\* CacheMut::deref_mut: flag.set_dirty(), then the caller writes v through
\* the returned &mut T
DerefMut(g, i, v) ==
    /\ muts[g][i] > 0
    /\ flags' = [flags EXCEPT ![g][i] = set_dirty(@)]
    /\ lines' = [lines EXCEPT ![g][i] = [@ EXCEPT !.inner = v]]
    /\ mutated' = [mutated EXCEPT ![g][i] = TRUE]
    /\ last' = NoEvent
    /\ UNCHANGED <<G, L, lock, call, storage, refs, muts, alive, hist>>

\* ------------------------------------------------------ dropping the cache
\* impl Drop for CacheGroup over the array groups[0..G], lines in index
\* order: a dirty line's inner is taken and stored, the error dropped.
\* take().unwrap() on None panics: that group's drop ends there, the other
\* groups are dropped while unwinding, and a second panic aborts.
RECURSIVE dropFrom(_, _, _, _, _, _)
dropFrom(k, ls, st, io, panics, okf) ==
    IF k >= G * L \/ panics >= 2
    THEN [lines |-> ls, storage |-> st, io |-> io, panics |-> panics]
    ELSE LET g == k \div L
             i == k % L
         IN IF ~is_dirty(flags[g][i])
            THEN dropFrom(k + 1, ls, st, io, panics, okf)
            ELSE IF ls[g][i].inner = None
            THEN dropFrom((g + 1) * L, ls, st, io, panics + 1, okf)
            ELSE LET T == TypeOf(ls[g][i].type_id)
                     v == ls[g][i].inner
                 IN dropFrom(k + 1,
                             [ls EXCEPT ![g][i] = [@ EXCEPT !.inner = None]],
                             IF okf[g][i] THEN [st EXCEPT ![T] = v] ELSE st,
                             Append(io, StoreEv(T, v, okf[g][i])),
                             panics, okf)

\* The last clone of the Cache goes away: no guard borrows it any more and
\* no call is running.  okf[g][i] is whether that line's store() succeeds.
DropCache(okf) ==
    /\ alive
    /\ LiveHandles = 0
    /\ InFlight = 0
    /\ \E r \in {dropFrom(0, lines, storage, <<>>, 0, okf)} :
          /\ lines' = r.lines
          /\ storage' = r.storage
          /\ last' = [NoEvent EXCEPT !.op = "drop",
                                     !.res = IF r.panics > 0 THEN "panic" ELSE "Ok",
                                     !.io = r.io]
    /\ alive' = FALSE
    /\ UNCHANGED <<G, L, flags, lock, call, refs, muts, mutated, hist>>

\* --------------------------------------------------------- specification
Next ==
    \/ \E T \in MainTypes, m \in BOOLEAN : Lock(T, m, MaxHandles)
    \/ \E T \in MainTypes, m \in BOOLEAN : LockPoisoned(T, m)
    \/ \E g \in Groups, loadOk, storeOk, spurious \in BOOLEAN :
          Retrieve(g, loadOk, storeOk, spurious)
    \/ \E g \in Groups, i \in Idx : DropRef(g, i)
    \/ \E g \in Groups, i \in Idx : DropMut(g, i)
    \/ \E g \in Groups, i \in Idx, v \in Values : DerefMut(g, i, v)
    \/ \E okf \in [Groups -> [Idx -> BOOLEAN]] : DropCache(okf)

Spec == Init /\ [][Next]_vars

\* SpecReaders: one Cache<1, 1>, two types, Cacheable calls that never
\* fail, and as many guards as the 8-bit Flag can count and one more.
ReaderCap == U8 \div 2 + 1
InitReaders == InitOf({<<1, 1>>})

NextReaders ==
    \/ \E T \in 1..2, m \in BOOLEAN : Lock(T, m, ReaderCap)
    \/ \E g \in Groups : Retrieve(g, TRUE, TRUE, FALSE)
    \/ \E g \in Groups, i \in Idx : DropRef(g, i)
    \/ \E g \in Groups, i \in Idx : DropMut(g, i)
    \/ \E g \in Groups, i \in Idx, v \in Values : DerefMut(g, i, v)

SpecReaders == InitReaders /\ [][NextReaders]_vars

\* ------------------------------------------------------------------ C1
\* C1: guard exclusion: a line never has a live CacheMut together with any
\* other live guard (CacheRef or CacheMut) on the same line.
C1_GuardExclusion ==
    \A g \in Groups, i \in Idx :
        muts[g][i] > 0 => (muts[g][i] = 1 /\ refs[g][i] = 0)

\* ------------------------------------------------------------------ C2
\* a step in which the call holding group g's mutex completes
Returns(g) == call[g] # NoCall /\ call'[g] = NoCall
Guards(g, i) == refs[g][i] + muts[g][i]

\* C2: an in-use reference is never invalidated: while a guard on a line is
\* alive no get / get_mut replaces or removes the line's tag or value, and a
\* call whose eviction target has an outstanding guard returns Busy and
\* leaves that line's tag, value and dirty bit unchanged.
C2_InUseNeverInvalidated ==
    [][\A g \in Groups, i \in Idx :
          (Returns(g) /\ Guards(g, i) > 0) =>
             /\ lines'[g][i].type_id = lines[g][i].type_id
             /\ lines'[g][i].inner = lines[g][i].inner
             /\ slot(lines[g], L, call[g].T) = Evict(i) =>
                   /\ last'.res = "Busy"
                   /\ is_dirty(flags'[g][i]) = is_dirty(flags[g][i])]_vars

\* ------------------------------------------------------------------ C3
\* the Cacheable calls of the step just taken include store() on value v of
\* the type held under tag tid
Stored(io, tid, v) ==
    \E k \in 1..Len(io) :
        io[k].f = "store" /\ io[k].T = TypeOf(tid) /\ io[k].v = v

\* C3: dirty write-back: a dirty line's value is never replaced by a newly
\* installed value, and the cache is never destroyed, without
\* Cacheable::store having been invoked on that value first.
C3_DirtyWriteback ==
    [][\A g \in Groups, i \in Idx :
          (is_dirty(flags[g][i]) /\ lines[g][i].inner # None) =>
             /\ (Returns(g) /\ lines'[g][i].type_id # lines[g][i].type_id) =>
                   Stored(last'.io, lines[g][i].type_id, lines[g][i].inner)
             /\ (alive /\ ~alive') =>
                   Stored(last'.io, lines[g][i].type_id, lines[g][i].inner)]_vars

\* ------------------------------------------------------------------ C4
Stores(io) == {k \in 1..Len(io) : io[k].f = "store"}

\* C4: write-back is deferred and happens exactly once: store() is called
\* only by the eviction of the line (on that line's value) or by the drop
\* of the cache, and the call that replaces a mutated line's type calls
\* store() exactly once, on the value left by the mutation, before the
\* load() of the new type, and leaves the dirty bit clear.
C4_DeferredWritebackOnce ==
    [][/\ \A g \in Groups, i \in Idx :
            (/\ Returns(g)
             /\ mutated[g][i]
             /\ lines[g][i].inner # None
             /\ lines'[g][i].type_id # lines[g][i].type_id) =>
                /\ last'.io = <<StoreEv(TypeOf(lines[g][i].type_id),
                                        lines[g][i].inner, TRUE),
                                LoadEv(last'.T, TRUE)>>
                /\ storage'[TypeOf(lines[g][i].type_id)] = lines[g][i].inner
                /\ ~is_dirty(flags'[g][i])
       /\ (alive' /\ Stores(last'.io) # {}) =>
             \E g \in Groups, i \in Idx :
                /\ Returns(g)
                /\ slot(lines[g], L, call[g].T) = Evict(i)
                /\ \A k \in Stores(last'.io) :
                      last'.io[k].T = TypeOf(lines[g][i].type_id)]_vars

\* ------------------------------------------------------------------ C5
\* the Cacheable calls io end with a load() that failed
LoadFailed(io) == Len(io) > 0 /\ io[Len(io)] = LoadEv(io[Len(io)].T, FALSE)

\* C5 as claimed: when T::load() fails during the install, the call still
\* returns a handle and the value seen through it is T::default().
C5_LoadErrorSwallowed ==
    [][\A g \in Groups :
          (Returns(g) /\ LoadFailed(last'.io)) =>
             /\ last'.res = "Ok"
             /\ last'.val = Default(last'.T)]_vars

\* C5 amended: when T::load() fails during the install into an Empty or
\* Evict slot, the error is propagated: the call returns Io, no guard is
\* issued, and T is not installed in any line of its group.
C5_LoadErrorPropagates ==
    [][\A g \in Groups :
          (Returns(g) /\ LoadFailed(last'.io)) =>
             /\ last'.res = "Io"
             /\ refs' = refs /\ muts' = muts
             /\ \A i \in Idx : lines'[g][i].type_id # type_id_usize(last'.T)]_vars

\* a get / get_mut has just returned Io because T::load() failed
C5_Witness == last.res = "Io" /\ LoadFailed(last.io)

\* ------------------------------------------------------------------ C6
\* C6: invariant I1: in every state of a live cache a line's tag is 0
\* exactly when its value is absent, also after a call that returned Io.
C6_I1 ==
    alive => \A g \in Groups, i \in Idx :
                (lines[g][i].type_id = 0) <=> (lines[g][i].inner = None)

\* ------------------------------------------------------------------ C7
\* C7: get_mut<T> of a resident T is refused with Locked only when a
\* CacheRef or CacheMut on T's line is outstanding.
C7_LockedOnlyWhenGuarded ==
    [][\A g \in Groups :
          (Returns(g) /\ last'.op = "get_mut" /\ last'.res = "Locked") =>
             Guards(g, last'.i) > 0]_vars

\* ------------------------------------------------------------------ C8
\* C8: the dirty bit is set only by a mutable dereference of a CacheMut,
\* and store() is called only on a value that was mutably dereferenced.
C8_DirtyOnlyByDerefMut ==
    [][/\ \A g \in Groups, i \in Idx : is_dirty(flags'[g][i]) => mutated'[g][i]
       /\ \A k \in Stores(last'.io) :
             \E g \in Groups, i \in Idx :
                /\ mutated[g][i]
                /\ last'.io[k].T = TypeOf(lines[g][i].type_id)
                /\ last'.io[k].v = lines[g][i].inner]_vars

\* ------------------------------------------------------------------ C9
\* C9: a hit does not reload: a get / get_mut of a resident T leaves the
\* stored value and the dirty bit unchanged, calls neither load() nor
\* store(), and a handle it returns reads the value that was stored.
C9_HitDoesNotReload ==
    [][\A g \in Groups, i \in Idx :
          (Returns(g) /\ slot(lines[g], L, call[g].T) = Hit(i)) =>
             /\ lines'[g][i].inner = lines[g][i].inner
             /\ is_dirty(flags'[g][i]) = is_dirty(flags[g][i])
             /\ last'.io = <<>>
             /\ last'.res = "Ok" => last'.val = lines[g][i].inner]_vars

\* ----------------------------------------------------------------- C10
\* The reference: an LRU list of capacity n, most recent first.
RefAccess(seq, T, n) ==
    LET rest == SelectSeq(seq, LAMBDA x : x # T)
        new == <<T>> \o rest
    IN IF Len(new) > n THEN SubSeq(new, 1, n) ELSE new

\* retrieve / retrieve_mut, with the reference list following every call
\* that returned a guard
RetrieveTracked(g, loadOk, storeOk, spurious) ==
    /\ RetrieveCall(g, loadOk, storeOk, spurious)
    /\ recency' = IF last'.res = "Ok"
                  THEN [recency EXCEPT ![g] = RefAccess(@, last'.T, L)]
                  ELSE recency
    /\ allOk' = (allOk /\ last'.res = "Ok")

\* SpecLru: one group of 1, 2 or 3 lines, four types; every call is made
\* with no guard alive, and the run is followed while every call succeeds.
\* A mutable dereference writes the value back unchanged (as tests::test_cache
\* does), so that only the dirty bit changes.
LruGeometries == {<<1, 1>>, <<1, 2>>, <<1, 3>>}
InitLru == InitOf(LruGeometries)

NextLru ==
    \/ \E T \in Types, m \in BOOLEAN : allOk /\ Lock(T, m, 1)
    \/ \E g \in Groups, loadOk, storeOk, spurious \in BOOLEAN :
          RetrieveTracked(g, loadOk, storeOk, spurious)
    \/ \E g \in Groups, i \in Idx : DropRef(g, i)
    \/ \E g \in Groups, i \in Idx : DropMut(g, i)
    \/ \E g \in Groups, i \in Idx : DerefMut(g, i, lines[g][i].inner)

SpecLru == InitLru /\ [][NextLru]_vars

\* C10: LRU eviction matches the reference list: after any sequence of
\* successful get / get_mut calls on a group (guards dropped before the
\* next call) the resident types are exactly the types of the reference
\* list, and the k-th most recently accessed type sits in a line of rank
\* k - 1 (the type just accessed has lru = 0, the evicted type is the least
\* recently accessed one).
C10_LruMatchesReference ==
    allOk =>
       \A g \in Groups :
          /\ {lines[g][i].type_id : i \in Idx} \ {0}
                = {type_id_usize(recency[g][k]) : k \in 1..Len(recency[g])}
          /\ \A k \in 1..Len(recency[g]) :
                \E i \in Idx : /\ lines[g][i].type_id = type_id_usize(recency[g][k])
                               /\ lines[g][i].lru = k - 1
                               /\ lines[g][i].inner # None

\* a full group of three lines has just evicted a mutated line by write-back
\* in a run of successful calls
C10_Witness ==
    /\ allOk /\ L = 3 /\ Len(recency[0]) = 3
    /\ last.res = "Ok" /\ Stores(last.io) # {}

\* ----------------------------------------------------------------- C11
\* the non-empty lines of group g
NonEmpty(g) == {i \in Idx : lines[g][i].type_id # 0}

\* C11: invariant I2: in every state of every group, also after calls that
\* returned Io, Busy or Locked, the lru ranks of the k non-empty lines are
\* exactly 0 .. k-1, each once, and no rank exceeds L-1.
C11_I2 ==
    \A g \in Groups :
       /\ {lines[g][i].lru : i \in NonEmpty(g)} = 0..(Cardinality(NonEmpty(g)) - 1)
       /\ \A i, j \in NonEmpty(g) : lines[g][i].lru = lines[g][j].lru => i = j
       /\ \A i \in NonEmpty(g) : lines[g][i].lru <= L - 1

\* ----------------------------------------------------------------- C12
\* C12: slot never returns None: in every state of a live cache, for every
\* type that can be requested from a group, the group has a line with the
\* type's tag, an empty line, or a line with lru = L-1.
C12_SlotNeverNone ==
    alive => \A T \in Types : slot(lines[group_of(T)], L, T) # NoSlot

\* ----------------------------------------------------------------- C13
\* type T is resident in group g
Resident(g, T) == \E i \in Idx : lines[g][i].type_id = type_id_usize(T)
\* every Cacheable call in io succeeded
AllOk(io) == \A k \in 1..Len(io) : io[k].ok

\* C13: Busy is raised exactly for a held eviction target and is transient:
\* a call for a type that is not resident, made while every line of its
\* group has an outstanding guard, returns Busy; a call returns Busy only if
\* its eviction target has an outstanding guard; and the same call made with
\* no guard outstanding on the group succeeds (its Cacheable calls
\* succeeding).
C13_BusyExactlyWhenHeld ==
    [][\A g \in Groups :
          Returns(g) =>
             /\ (/\ ~Resident(g, call[g].T)
                 /\ \A i \in Idx : Guards(g, i) > 0) => last'.res = "Busy"
             /\ last'.res = "Busy" =>
                   \E i \in Idx : /\ slot(lines[g], L, call[g].T) = Evict(i)
                                  /\ Guards(g, i) > 0
             /\ (/\ ~Resident(g, call[g].T)
                 /\ \A i \in Idx : Guards(g, i) = 0
                 /\ AllOk(last'.io)) => last'.res = "Ok"]_vars

\* ----------------------------------------------------------------- C14
\* C14: a call that returns an error (Locked, Busy or Io) does not change
\* the relative LRU order of the resident lines of its group, so that the
\* next eviction victim is the line it was before the call.
C14_FailedCallKeepsLruOrder ==
    [][\A g \in Groups :
          (Returns(g) /\ last'.res \in {"Locked", "Busy", "Io"}) =>
             \A i, j \in NonEmpty(g) :
                (lines[g][i].lru < lines[g][j].lru)
                   <=> (lines'[g][i].lru < lines'[g][j].lru)]_vars

\* ----------------------------------------------------------------- C15
\* C15: invariant I3: no two non-empty lines of a group hold the same tag,
\* and a request for a resident type is resolved as a Hit on the line that
\* holds it.
C15_I3 ==
    \A g \in Groups :
       /\ \A i, j \in NonEmpty(g) :
             lines[g][i].type_id = lines[g][j].type_id => i = j
       /\ \A i \in NonEmpty(g) :
             slot(lines[g], L, TypeOf(lines[g][i].type_id)) = Hit(i)

\* a group of two lines is full and a resident type has just been requested
\* again and found in its line
C15_Witness ==
    /\ L = 2 /\ last.res = "Ok" /\ last.io = <<>>
    /\ NonEmpty(last.g) = Idx
    /\ lines[last.g][last.i].type_id = type_id_usize(last.T)

\* ----------------------------------------------------------------- C16
\* SpecFair: the calls of Spec on a live cache, under fair scheduling: a
\* thread that holds a group mutex goes on to finish the body of retrieve /
\* retrieve_mut (Cacheable::load and store return).  A call is started only
\* while the lru counters of its group are below the cap, so that the cap
\* never holds up a call that has started.
LruBelow(g) == \A i \in Idx : lines[g][i].lru < MaxLru

NextFair ==
    \/ \E T \in MainTypes, m \in BOOLEAN :
          LruBelow(group_of(T)) /\ Lock(T, m, MaxHandles)
    \/ \E T \in MainTypes, m \in BOOLEAN : LockPoisoned(T, m)
    \/ \E g \in Groups, loadOk, storeOk, spurious \in BOOLEAN :
          Retrieve(g, loadOk, storeOk, spurious)
    \/ \E g \in Groups, i \in Idx : DropRef(g, i)
    \/ \E g \in Groups, i \in Idx : DropMut(g, i)
    \/ \E g \in Groups, i \in Idx, v \in Values : DerefMut(g, i, v)

Finish(g) ==
    /\ g \in Groups
    /\ \E loadOk, storeOk, spurious \in BOOLEAN :
          Retrieve(g, loadOk, storeOk, spurious)

FairGeometries == {<<1, 1>>, <<2, 1>>}

SpecFair ==
    /\ InitOf(FairGeometries)
    /\ [][NextFair]_vars
    /\ WF_vars(Finish(0))
    /\ WF_vars(Finish(1))

\* the call on group g is in flight: it holds the group mutex
Running(g) == g \in Groups /\ call[g] # NoCall
\* the call on group g has just returned a guard or an error and the group
\* mutex is free again
Returned(g) ==
    /\ g \in Groups /\ call[g] = NoCall /\ lock[g] = "free"
    /\ last.g = g /\ last.res \in {"Ok", "Locked", "Busy", "Io"}

\* C16: no call waits on a guard: under fair scheduling every get / get_mut
\* call that has taken its group mutex, whatever guards are outstanding,
\* eventually returns a guard or an error and releases the mutex.
C16_CallsReturn ==
    /\ Running(0) ~> Returned(0)
    /\ Running(1) ~> Returned(1)

\* ----------------------------------------------------------------- C17
\* bits 1..6 of the flag: the reader count; bit 0: the writer bit
ReadCount(f) == (f % 128) \div 2
WriteBit(f) == f % 2 = 1

\* C17: the flag mirrors the live guards: in every state a line's reader
\* count is the number of live CacheRef guards on the line and its writer
\* bit is set exactly when a CacheMut on the line is live (so that with no
\* guard alive in_using is false, and a failed call leaves both unchanged).
C17_FlagMirrorsGuards ==
    \A g \in Groups, i \in Idx :
       /\ ReadCount(flags[g][i]) = refs[g][i]
       /\ WriteBit(flags[g][i]) <=> muts[g][i] > 0
       /\ Guards(g, i) = 0 => ~in_using(flags[g][i])

\* ----------------------------------------------------------------- C18
\* a step in which a call takes the mutex of group g
Starts(g) == call[g] = NoCall /\ call'[g] # NoCall

\* C18: groups are independent: a get<T> / get_mut<T> takes the mutex of
\* group tag(T) mod G and of no other group, and when it completes the
\* lines, flags, guards, mutex and running call of every other group, and
\* the backing store of every type of another group, are unchanged.
C18_GroupsIndependent ==
    [][\A g \in Groups :
          /\ Starts(g) =>
                /\ type_id_usize(call'[g].T) % G = g
                /\ \A h \in Groups \ {g} :
                      lock'[h] = lock[h] /\ call'[h] = call[h]
          /\ Returns(g) =>
                /\ type_id_usize(call[g].T) % G = g
                /\ \A h \in Groups \ {g} :
                      /\ lines'[h] = lines[h] /\ flags'[h] = flags[h]
                      /\ refs'[h] = refs[h] /\ muts'[h] = muts[h]
                      /\ lock'[h] = lock[h] /\ call'[h] = call[h]
                /\ \A U \in Types :
                      type_id_usize(U) % G # g => storage'[U] = storage[U]]_vars

\* in a cache of two groups a call on group 1 has just returned a guard
\* after an eviction with write-back, while a call on group 0 holds that
\* group's mutex
C18_Witness ==
    /\ G = 2 /\ last.g = 1 /\ last.res = "Ok" /\ Stores(last.io) # {}
    /\ lock[0] = "held" /\ call[0] # NoCall

\* ----------------------------------------------------------------- C19
\* the lowest (Lowest) or highest (Highest) index in the non-empty set S
Lowest(S) == CHOOSE i \in S : \A j \in S : i <= j
Highest(S) == CHOOSE i \in S : \A j \in S : j <= i

\* slot by the stated precedence Hit > Empty > Evict, each looked for over
\* the whole group
slotByPrecedence(ls, n, T) ==
    LET hits == {i \in 0..(n - 1) : ls[i].type_id = type_id_usize(T)}
        empties == {i \in 0..(n - 1) : ls[i].type_id = 0}
        stale == {i \in 0..(n - 1) : ls[i].lru = n - 1}
    IN IF hits # {} THEN Hit(Lowest(hits))
       ELSE IF empties # {} THEN Empty(Lowest(empties))
       ELSE IF stale # {} THEN Evict(Highest(stale))
       ELSE NoSlot

\* C19: the empty lines of a group form a suffix: no empty line has a lower
\* index than a non-empty line, a non-empty line never becomes empty again,
\* and so, in every state in which a call scans the group, the single
\* ascending pass of slot agrees with the precedence Hit > Empty > Evict
\* for every type.
C19_EmptySuffix ==
    [][\A g \in Groups :
          /\ \A i \in Idx :
                /\ lines[g][i].type_id # 0 => lines'[g][i].type_id # 0
                /\ \A j \in Idx :
                      (i < j /\ lines'[g][i].type_id = 0) =>
                         lines'[g][j].type_id = 0
          /\ Returns(g) =>
                \A T \in Types :
                   slot(lines[g], L, T) = slotByPrecedence(lines[g], L, T)]_vars

\* a group of two lines holds one type in line 0 and a load into the empty
\* line 1 has just failed, leaving it empty
C19_Witness ==
    /\ L = 2 /\ last.res = "Io" /\ LoadFailed(last.io) /\ last.i = 1
    /\ lines[0][0].type_id # 0 /\ lines[0][1].type_id = 0

\* ----------------------------------------------------------------- C20
\* C20: read admission and release change only the reader count: a step
\* that issues a CacheRef on a resident line, or drops one, leaves the
\* line's dirty bit and writer bit as they were, and in_using is true while
\* at least one CacheRef on the line is alive, for any number of CacheRef
\* guards held at once.
C20_ReadTouchesOnlyCount ==
    [][\A g \in Groups, i \in Idx :
          /\ (/\ refs'[g][i] # refs[g][i]
              /\ lines'[g][i].type_id = lines[g][i].type_id) =>
                /\ is_dirty(flags'[g][i]) = is_dirty(flags[g][i])
                /\ WriteBit(flags'[g][i]) = WriteBit(flags[g][i])
          /\ refs'[g][i] > 0 => in_using(flags'[g][i])]_vars
====
